---- MODULE Spec2Model ----
(***************************************************************************)
(* Model of the environment-variables provider: the Provider lifecycle     *)
(* (Init / Fetch / Shutdown), the Fetcher cache, the path Resolver and the *)
(* value converter, with concurrent callers and a process environment      *)
(* that may be changed while the provider runs.                            *)
(*                                                                         *)
(* Strings are sequences of one-character strings (bytes), so that length, *)
(* prefix, join and case mapping are computed and not assumed.  A raw      *)
(* value is [text, fill]: the bytes of text followed by fill filler bytes  *)
(* "x", which lets a value longer than MaxValueSize be a state of the      *)
(* model without a million-element sequence.                               *)
(***************************************************************************)
EXTENDS Integers, Sequences, FiniteSets, TLC

\* ---------------------------------------------------------------- bounds
MaxCalls == 4
MaxEnvWrites == 1

\* ------------------------------------------------------ program constants
MaxValueSize == 1048576
MaxJSONDepth == 100

\* ------------------------------------------------------------- lifecycle
StateUninitialized == "Uninitialized"
StateInitializing == "Initializing"
StateReady == "Ready"
StateShuttingDown == "ShuttingDown"
StateStopped == "Stopped"

State == {StateUninitialized, StateInitializing, StateReady, StateShuttingDown,
          StateStopped}

\* a nil pointer (p.config, p.resolver before the first successful Init)
Nil == [nil |-> TRUE]

\* ---------------------------------------------------------------- strings
Str(text) == [text |-> text, fill |-> 0]

Filled(text, n) == [text |-> text, fill |-> n]

\* the number of bytes of a character: the characters named by a code point
\* are the ones UTF-8 encodes in several bytes
Utf8Len(c) ==
    CASE c = "U+00E9" -> 2
      [] c = "U+20AC" -> 3
      [] OTHER -> 1

\* len(s) of a Go string: its bytes, not its characters
ByteLen(s) ==
    Len(s) + Cardinality({i \in 1..Len(s) : Utf8Len(s[i]) > 1})
           + Cardinality({i \in 1..Len(s) : Utf8Len(s[i]) > 2})

\* len(value) of a raw value
RawLen(v) == ByteLen(v.text) + v.fill

IsSpace(c) == c \in {" ", "\t", "\n", "\r"}

RECURSIVE TrimLeft(_)
TrimLeft(s) == IF s # <<>> /\ IsSpace(Head(s)) THEN TrimLeft(Tail(s)) ELSE s

RECURSIVE TrimRight(_)
TrimRight(s) ==
    IF s # <<>> /\ IsSpace(s[Len(s)]) THEN TrimRight(SubSeq(s, 1, Len(s) - 1)) ELSE s

\* strings.TrimSpace
TrimSpace(s) == TrimRight(TrimLeft(s))

\* strings.HasPrefix
HasPrefix(s, prefix) == Len(s) >= Len(prefix) /\ SubSeq(s, 1, Len(prefix)) = prefix

LowerLetters ==
    <<"a", "b", "c", "d", "e", "f", "g", "h", "i", "j", "k", "l", "m",
      "n", "o", "p", "q", "r", "s", "t", "u", "v", "w", "x", "y", "z">>

UpperLetters ==
    <<"A", "B", "C", "D", "E", "F", "G", "H", "I", "J", "K", "L", "M",
      "N", "O", "P", "Q", "R", "S", "T", "U", "V", "W", "X", "Y", "Z">>

MapChar(c, from, to) ==
    IF \E i \in 1..Len(from) : from[i] = c
    THEN to[CHOOSE i \in 1..Len(from) : from[i] = c]
    ELSE c

\* strings.ToUpper / strings.ToLower on the letters of the model's alphabet
ToUpperCase(s) == [i \in 1..Len(s) |-> MapChar(s[i], LowerLetters, UpperLetters)]

ToLowerCase(s) == [i \in 1..Len(s) |-> MapChar(s[i], UpperLetters, LowerLetters)]

\* a preserve rule that lowers the case
PreserveCaseLowered(s) == ToLowerCase(s)

PreserveCase(s) == s

RECURSIVE Join(_, _)
\* strings.Join
Join(segs, sep) ==
    IF segs = <<>> THEN <<>>
    ELSE IF Len(segs) = 1 THEN segs[1]
    ELSE segs[1] \o sep \o Join(Tail(segs), sep)

\* the elements of a sequence, as a set
Elems(s) == {s[i] : i \in 1..Len(s)}

\* --------------------------------------------------------------- resolver
TransformSegment(segment, caseTransform) ==
    CASE caseTransform = "upper" -> ToUpperCase(segment)
      [] caseTransform = "lower" -> ToLowerCase(segment)
      [] caseTransform = "preserve" -> PreserveCase(segment)
      [] OTHER -> segment

TransformSegments(segments, caseTransform) ==
    [i \in 1..Len(segments) |-> TransformSegment(segments[i], caseTransform)]

PrependPrefix(varName, prefix) == prefix \o varName

ApplyPrefix(varName, prefix, mode) ==
    IF prefix = <<>> THEN varName
    ELSE CASE mode = "prepend" -> PrependPrefix(varName, prefix)
           [] mode = "filter_only" -> varName
           [] OTHER -> varName

\* a filter with the arguments of HasPrefix exchanged
FilterByPrefixSwapped(varName, prefix) ==
    IF prefix = <<>> THEN TRUE ELSE HasPrefix(prefix, varName)

FilterByPrefix(varName, prefix) ==
    IF prefix = <<>> THEN TRUE ELSE HasPrefix(varName, prefix)

NewResolver(separator, caseTransform, prefix, prefixMode) ==
    [separator |-> separator, caseTransform |-> caseTransform,
     prefix |-> prefix, prefixMode |-> prefixMode]

\* Resolver.Transform: [err, name]
Transform(r, path) ==
    IF Len(path) = 0 THEN [err |-> "ErrEmptyPath", name |-> <<>>]
    ELSE IF \E i \in 1..Len(path) : TrimSpace(path[i]) = <<>>
    THEN [err |-> "ErrEmptySegment", name |-> <<>>]
    ELSE [err |-> "",
          name |-> ApplyPrefix(Join(TransformSegments(path, r.caseTransform),
                                    r.separator),
                               r.prefix, r.prefixMode)]

\* ----------------------------------------------------------------- config
DefaultConfig ==
    [Separator |-> <<"_">>, CaseTransform |-> "upper", Prefix |-> <<>>,
     PrefixMode |-> "prepend", RequiredVariables |-> <<>>,
     EnableTypeConversion |-> TRUE, EnableJSONParsing |-> TRUE]

\* getString / getBool / getStringList: the field of the request's map, or
\* the default when the map does not have it
getField(m, key, defaultVal) == IF key \in DOMAIN m THEN m[key] ELSE defaultVal

ParseConfig(pbConfig) ==
    [Separator |-> getField(pbConfig, "separator", DefaultConfig.Separator),
     CaseTransform |-> getField(pbConfig, "case_transform", DefaultConfig.CaseTransform),
     Prefix |-> getField(pbConfig, "prefix", DefaultConfig.Prefix),
     PrefixMode |-> getField(pbConfig, "prefix_mode", DefaultConfig.PrefixMode),
     RequiredVariables |->
         getField(pbConfig, "required_variables", DefaultConfig.RequiredVariables),
     EnableTypeConversion |->
         getField(pbConfig, "enable_type_conversion", DefaultConfig.EnableTypeConversion),
     EnableJSONParsing |->
         getField(pbConfig, "enable_json_parsing", DefaultConfig.EnableJSONParsing)]

\* ValidateConfig: TRUE when it returns no error
ValidateConfig(c) ==
    /\ c.CaseTransform \in {"upper", "lower", "preserve"}
    /\ c.PrefixMode \in {"prepend", "filter_only"}
    /\ ByteLen(c.Separator) = 1
    /\ \A i \in 1..Len(c.RequiredVariables) : TrimSpace(c.RequiredVariables[i]) # <<>>

\* -------------------------------------------------------------- converter
Digits == {"0", "1", "2", "3", "4", "5", "6", "7", "8", "9"}

DigitValue(c) == CHOOSE n \in 0..9 : <<"0", "1", "2", "3", "4", "5", "6", "7", "8", "9">>[n + 1] = c

RECURSIVE DecimalValue(_)
DecimalValue(s) ==
    IF s = <<>> THEN 0
    ELSE 10 * DecimalValue(SubSeq(s, 1, Len(s) - 1)) + DigitValue(s[Len(s)])

AllDigits(s) == s # <<>> /\ \A i \in 1..Len(s) : s[i] \in Digits

\* a typed value: String | Number | Boolean | Object | Array
StringValue(raw) == [type |-> "string", num |-> 0, bool |-> FALSE, raw |-> raw]

NumberValue(n, raw) == [type |-> "number", num |-> n, bool |-> FALSE, raw |-> raw]

BooleanValue(b, raw) == [type |-> "boolean", num |-> 0, bool |-> b, raw |-> raw]

JSONValue(kind, raw) == [type |-> kind, num |-> 0, bool |-> FALSE, raw |-> raw]

NoTypedValue == [type |-> "", num |-> 0, bool |-> FALSE, raw |-> Str(<<>>)]

\* strconv.ParseFloat on the model's alphabet: an optional sign and decimal
\* digits, or one of the words inf, infinity, nan in any case.  [ok, num]
TryNumeric(value) ==
    LET t == value.text
        unsigned == IF t # <<>> /\ Head(t) \in {"+", "-"} THEN Tail(t) ELSE t
        sign == IF t # <<>> /\ Head(t) = "-" THEN -1 ELSE 1
    IN  IF value.fill > 0 THEN [ok |-> FALSE, num |-> 0]
        ELSE IF AllDigits(unsigned)
        THEN [ok |-> TRUE, num |-> sign * DecimalValue(unsigned)]
        ELSE IF ToLowerCase(unsigned) \in
                    {<<"i", "n", "f">>, <<"i", "n", "f", "i", "n", "i", "t", "y">>}
                \/ ToLowerCase(t) = <<"n", "a", "n">>
        THEN [ok |-> TRUE, num |-> 0]
        ELSE [ok |-> FALSE, num |-> 0]

\* TryBoolean: [ok, result]
TryBoolean(value) ==
    LET lower == ToLowerCase(TrimSpace(value.text))
    IN  IF value.fill > 0 THEN [ok |-> FALSE, result |-> FALSE]
        ELSE IF lower \in {<<"t", "r", "u", "e">>, <<"y", "e", "s">>}
        THEN [ok |-> TRUE, result |-> TRUE]
        ELSE IF lower \in {<<"f", "a", "l", "s", "e">>, <<"n", "o">>}
        THEN [ok |-> TRUE, result |-> FALSE]
        ELSE [ok |-> FALSE, result |-> FALSE]

\* ---- encoding/json on the model's alphabet: arrays, objects, strings
\* without escapes, decimal integers and the literals true, false, null.
\* A parse result is [ok, kind, levels]: levels is the set of the nesting
\* levels of the nodes of the value (the value itself is at level 0).  The
\* text is checked token by token, each against the token that follows it,
\* so that the evaluation of a deeply nested text is not deeply nested.
ParseFail == [ok |-> FALSE, kind |-> "", levels |-> {}]

Parsed(kind, levels) == [ok |-> TRUE, kind |-> kind, levels |-> levels]

RECURSIVE SkipWS(_, _)
SkipWS(s, i) == IF i <= Len(s) /\ IsSpace(s[i]) THEN SkipWS(s, i + 1) ELSE i

\* a character of a number or of a literal
IsWordChar(c) == ~IsSpace(c) /\ c \notin {"[", "]", "{", "}", ":", ",", "\""}

RECURSIVE SkipWord(_, _)
SkipWord(s, i) == IF i <= Len(s) /\ IsWordChar(s[i]) THEN SkipWord(s, i + 1) ELSE i

RECURSIVE FindQuote(_, _)
\* the index of the closing quote of a string whose body starts at i, or 0
FindQuote(s, i) ==
    IF i > Len(s) THEN 0
    ELSE IF s[i] = "\"" THEN i
    ELSE FindQuote(s, i + 1)

\* a number or a literal: "" when the word is neither
ScalarKind(w) ==
    LET d == IF w # <<>> /\ Head(w) = "-" THEN Tail(w) ELSE w
    IN  IF w \in {<<"t", "r", "u", "e">>, <<"f", "a", "l", "s", "e">>} THEN "bool"
        ELSE IF w = <<"n", "u", "l", "l">> THEN "null"
        ELSE IF AllDigits(d) /\ (Len(d) = 1 \/ Head(d) # "0") THEN "number"
        ELSE ""

\* json.Unmarshal: one value, then only whitespace
Unmarshal(value) ==
    LET s == value.text
        n == Len(s)
        quotes == {k \in 1..n : s[k] = "\""}
        \* the number of quotes before each position: even outside a string
        qBefore == [i \in 1..n |-> Cardinality({k \in quotes : k < i})] \o <<>>
        outside == {i \in 1..n : qBefore[i] % 2 = 0 /\ s[i] # "\""}
        opens == {i \in outside : s[i] \in {"[", "{"}}
        closes == {i \in outside : s[i] \in {"]", "}"}}
        \* the number of containers open at each position
        lvl == [i \in 1..n |-> Cardinality({k \in opens : k < i})
                               - Cardinality({k \in closes : k < i})] \o <<>>
        \* the positions where a token starts
        tokens ==
            {i \in 1..n :
                \/ s[i] = "\"" /\ qBefore[i] % 2 = 0
                \/ /\ i \in outside
                   /\ ~IsSpace(s[i])
                   /\ ~IsWordChar(s[i]) \/ i = 1 \/ ~IsWordChar(s[i - 1])}
        tokenKind(i) ==
            IF s[i] = "\"" THEN "string"
            ELSE IF IsWordChar(s[i]) THEN "scalar"
            ELSE s[i]
        tokenEnd(i) ==
            IF s[i] = "\"" THEN FindQuote(s, i + 1)
            ELSE IF IsWordChar(s[i]) THEN SkipWord(s, i) - 1
            ELSE i
        \* the token that follows, 0 when there is none
        follow == [i \in 1..n |->
                      IF i \notin tokens THEN 0
                      ELSE LET j == SkipWS(s, tokenEnd(i) + 1)
                           IN  IF j > n THEN 0 ELSE j] \o <<>>
        startsValue(j) == j # 0 /\ tokenKind(j) \in {"[", "{", "string", "scalar"}
        startsMember(j) ==
            j # 0 /\ tokenKind(j) = "string" /\ follow[j] # 0 /\ tokenKind(follow[j]) = ":"
        \* the container open at level l just before position i: "[" or "{"
        container(i, l) ==
            LET c == {k \in opens : k < i /\ lvl[k] = l - 1}
            IN  s[CHOOSE k \in c : \A m \in c : m <= k]
        \* what follows a value that ends with l containers open around it
        endsValue(i, l) ==
            IF l = 0 THEN follow[i] = 0
            ELSE /\ follow[i] # 0
                 /\ tokenKind(follow[i]) \in
                        {",", IF container(i, l) = "[" THEN "]" ELSE "}"}
        colons == {follow[follow[i]] :
                      i \in {k \in tokens : /\ tokenKind(k) \in {"{", ","}
                                            /\ startsMember(follow[k])}}
        wellFormed(i) ==
            LET k == tokenKind(i)
            IN  CASE k = "[" -> startsValue(follow[i]) \/ (follow[i] # 0 /\ s[follow[i]] = "]")
                  [] k = "{" -> startsMember(follow[i]) \/ (follow[i] # 0 /\ s[follow[i]] = "}")
                  [] k = "," -> /\ lvl[i] > 0
                                /\ IF container(i, lvl[i]) = "["
                                   THEN startsValue(follow[i])
                                   ELSE startsMember(follow[i])
                  [] k = ":" -> i \in colons /\ startsValue(follow[i])
                  [] k = "string" -> startsMember(i) \/ endsValue(i, lvl[i])
                  [] k = "scalar" -> /\ ScalarKind(SubSeq(s, i, tokenEnd(i))) # ""
                                     /\ endsValue(i, lvl[i])
                  [] OTHER -> lvl[i] > 0 /\ endsValue(i, lvl[i] - 1)
        first == SkipWS(s, 1)
        firstKind ==
            CASE s[first] = "[" -> "array"
              [] s[first] = "{" -> "object"
              [] s[first] = "\"" -> "string"
              [] OTHER -> ScalarKind(SubSeq(s, first, tokenEnd(first)))
    IN  IF \/ value.fill > 0
           \/ \E i \in 1..n : s[i] = "\\"
           \/ Cardinality(quotes) % 2 = 1
           \/ first > n
           \/ ~startsValue(first)
           \/ lvl[first] # 0
           \/ \E i \in tokens : ~wellFormed(i)
        THEN ParseFail
        ELSE Parsed(firstKind,
                    {lvl[i] : i \in {k \in tokens : startsValue(k) /\ ~startsMember(k)}})

\* a depth check that already refuses a node at the limit
validateDepthBelowLimit(v) == ~(\E depth \in v.levels : depth >= MaxJSONDepth)

\* validateDepth(result, 0): TRUE when it returns no error.  A node at
\* nesting level d is visited with depth = d.
validateDepth(v) == ~(\E depth \in v.levels : depth > MaxJSONDepth)

\* a TryJSON that lets a text that does not parse through
TryJSONLenient(value) == [err |-> "", kind |-> ""]

\* TryJSON: [err, kind]
TryJSON(value) ==
    LET v == Unmarshal(value)
    IN  IF ~v.ok THEN [err |-> "ErrInvalidJSON", kind |-> ""]
        ELSE IF ~validateDepth(v) THEN [err |-> "ErrJSONTooDeep", kind |-> ""]
        ELSE [err |-> "", kind |-> v.kind]

\* a conversion that leaves every value a string
ConvertValueUntyped(value, enableTypeConversion, enableJSONParsing) ==
    [err |-> "", value |-> StringValue(value)]

\* ConvertValue: [err, value]
ConvertValue(value, enableTypeConversion, enableJSONParsing) ==
    LET trimmed == TrimSpace(value.text)
        sniff == trimmed # <<>> /\ Head(trimmed) \in {"{", "["}
        json == TryJSON(value)
        num == TryNumeric(value)
        b == TryBoolean(value)
    IN  IF RawLen(value) > MaxValueSize
        THEN [err |-> "ErrValueTooLarge", value |-> NoTypedValue]
        ELSE IF RawLen(value) = 0 THEN [err |-> "", value |-> StringValue(value)]
        ELSE IF enableJSONParsing /\ sniff
        THEN IF json.err # "" THEN [err |-> json.err, value |-> NoTypedValue]
             ELSE [err |-> "",
                   value |-> JSONValue(IF json.kind = "array" THEN "array" ELSE "object",
                                       value)]
        ELSE IF ~enableTypeConversion THEN [err |-> "", value |-> StringValue(value)]
        ELSE IF num.ok THEN [err |-> "", value |-> NumberValue(num.num, value)]
        ELSE IF b.ok THEN [err |-> "", value |-> BooleanValue(b.result, value)]
        ELSE [err |-> "", value |-> StringValue(value)]

\* ------------------------------------------------------------ model data
Callers == {"c1", "c2"}

VarA == <<"A">>

VarAB == <<"A", "_", "B">>

VarPort == <<"M", "Y", "A", "P", "P", "_", "P", "O", "R", "T">>

\* the names the environment changes of the model touch
EnvNames == {VarA, VarAB}

\* the raw values the environment of the model may hold: a number, a
\* malformed JSON text, a value one byte over the size limit and a value of
\* exactly the size limit
EnvValues ==
    {Str(<<"2">>), Str(<<"[">>), Filled(<<"x">>, MaxValueSize),
     Filled(<<"x">>, MaxValueSize - 1)}

InitialEnv == (VarA :> Str(<<"1">>)) @@ (VarPort :> Str(<<"8", "0", "8", "0">>))

PrefixMyApp == <<"M", "Y", "A", "P", "P", "_">>

\* an Init request with a prepended prefix
RequestMyApp ==
    [alias |-> "a4",
     config |-> [prefix |-> PrefixMyApp, prefix_mode |-> "prepend",
                 case_transform |-> "upper"]]

\* Init requests: the defaults (the separator given is the default one); a
\* filter_only prefix with two required variables; an invalid
\* case_transform; a prepended prefix
InitRequests ==
    {[alias |-> "a1", config |-> [separator |-> <<"_">>]],
     RequestMyApp,
     [alias |-> "a2",
      config |-> [prefix |-> <<"A", "_">>, prefix_mode |-> "filter_only",
                  required_variables |-> <<VarA, VarAB>>,
                  enable_json_parsing |-> FALSE]],
     [alias |-> "a3", config |-> [case_transform |-> "title"]]}

PathPort == <<<<"p", "o", "r", "t">>>>

\* Fetch requests: a direct name, a hierarchical path, an empty path, a
\* path with a blank segment and a one-segment lower-case path
FetchPaths == {<<VarA>>, <<<<"a">>, <<"b">>>>, <<>>, <<<<" ">>>>, PathPort}

\* an environment that reports every name as absent
LookupEnvAbsent(e, name) == [exists |-> FALSE, value |-> Str(<<>>)]

\* os.LookupEnv
LookupEnv(e, name) ==
    [exists |-> name \in DOMAIN e,
     value |-> IF name \in DOMAIN e THEN e[name] ELSE Str(<<>>)]

\* a map with key k set to v / without key k
MapStore(m, k, v) == [x \in DOMAIN m \cup {k} |-> IF x = k THEN v ELSE m[x]]

MapDelete(m, k) == [x \in DOMAIN m \ {k} |-> m[x]]

EmptyMap == <<>>

NoneServed == [n \in EnvNames |-> {}]

\* ----------------------------------------------------------------- state
VARIABLES
    state,      \* Provider.state (atomic)
    mu,         \* Provider.mu: "" when free, else the caller holding it
    alias,      \* Provider.alias
    config,     \* Provider.config: Nil or a Config
    fetcher,    \* Provider.fetcher # nil
    resolver,   \* Provider.resolver: Nil or a Resolver
    cache,      \* Fetcher.cache: name -> raw value
    env,        \* the process environment: name -> raw value
    pc,         \* where each caller is in its call
    loc,        \* the locals of each caller's call
    ret,        \* what each caller's last call returned
    calls,      \* number of calls begun
    envWrites,  \* number of Setenv / Unsetenv done
    served,     \* history: raw values returned per name since the last Clear began
    everReady,  \* history: some Init has succeeded
    validated,  \* history: names the Init that stored config found in the environment
    preInit,    \* history: names cached since before the last successful Init
    okAlias,    \* history: the alias of the last Init that succeeded
    probe       \* one application of a pure function: its input and its result

vars == <<state, mu, alias, config, fetcher, resolver, cache, env, pc, loc, ret,
          calls, envWrites, served, everReady, validated, preInit, okAlias, probe>>

IdleLoc ==
    [req |-> [alias |-> "", config |-> Nil], cfg |-> Nil, i |-> 0, missing |-> <<>>,
     absent |-> {}, found |-> {}, path |-> <<>>, varName |-> <<>>,
     value |-> Str(<<>>), readEnv |-> FALSE, snapshot |-> {}, visited |-> {}, seen |-> "",
     prior |-> NoneServed, resolverRead |-> Nil, configRead |-> Nil]

NoRet ==
    [op |-> "", code |-> "", err |-> "", name |-> <<>>, raw |-> Str(<<>>),
     value |-> NoTypedValue, missing |-> <<>>, absent |-> {}, seen |-> "",
     readEnv |-> FALSE, prior |-> NoneServed, path |-> <<>>, alias |-> "",
     type |-> "", status |-> ""]

\* the response of a call, with the history fields the properties read
Response(op, code, err, l) ==
    [NoRet EXCEPT !.op = op, !.code = code, !.err = err, !.missing = l.missing,
                  !.absent = l.absent, !.seen = l.seen, !.readEnv = l.readEnv,
                  !.prior = l.prior, !.name = l.varName, !.path = l.path]

\* the result of a pure function, and no application of one
NoResult == [ok |-> FALSE, err |-> "", name |-> <<>>, value |-> NoTypedValue]

NoProbe ==
    [fn |-> "", done |-> FALSE, cfg |-> DefaultConfig, path |-> <<>>,
     value |-> Str(<<>>), res |-> NoResult]

Init ==
    /\ state = StateUninitialized
    /\ mu = ""
    /\ alias = ""
    /\ config = Nil
    /\ fetcher = FALSE
    /\ resolver = Nil
    /\ cache = EmptyMap
    /\ env = InitialEnv
    /\ pc = [p \in Callers |-> "idle"]
    /\ loc = [p \in Callers |-> IdleLoc]
    /\ ret = [p \in Callers |-> NoRet]
    /\ calls = 0
    /\ envWrites = 0
    /\ served = NoneServed
    /\ everReady = FALSE
    /\ validated = {}
    /\ preInit = {}
    /\ okAlias = ""
    /\ probe = NoProbe

\* a call returns: the caller holds the response
Return(p, r) ==
    /\ pc' = [pc EXCEPT ![p] = "done"]
    /\ loc' = [loc EXCEPT ![p] = IdleLoc]
    /\ ret' = [ret EXCEPT ![p] = r]

Goto(p, label, l) ==
    /\ pc' = [pc EXCEPT ![p] = label]
    /\ loc' = [loc EXCEPT ![p] = l]
    /\ ret' = [ret EXCEPT ![p] = NoRet]

\* a caller issues one call at a time; its next call discards the last response
CanCall(p) == pc[p] \in {"idle", "done"} /\ calls < MaxCalls

\* ------------------------------------------------------------ Provider.mu
\* the callers that hold the read lock
Readers == {q \in Callers : pc[q] = "info_locked"}

\* a lock that excludes nobody
LockFreeAlways(m, readers) == TRUE

\* p.mu.Lock() returns: neither a writer nor a reader holds the lock
LockFree(m, readers) == m = "" /\ readers = {}

\* p.mu.RLock() returns: no writer holds the lock
RLockFree(m) == m = ""

\* a deferred Unlock that is not run
UnlockForgotten(m) == m

\* defer p.mu.Unlock(): the lock has no writer
Unlock(m) == ""

\* ----------------------------------------------------------- environment
Setenv(n, v) ==
    /\ envWrites < MaxEnvWrites
    /\ env' = MapStore(env, n, v)
    /\ envWrites' = envWrites + 1
    /\ UNCHANGED <<state, mu, alias, config, fetcher, resolver, cache, pc, loc, ret,
                   calls, served, everReady, validated, preInit, okAlias, probe>>

Unsetenv(n) ==
    /\ envWrites < MaxEnvWrites
    /\ n \in DOMAIN env
    /\ env' = MapDelete(env, n)
    /\ envWrites' = envWrites + 1
    /\ UNCHANGED <<state, mu, alias, config, fetcher, resolver, cache, pc, loc, ret,
                   calls, served, everReady, validated, preInit, okAlias, probe>>

\* ------------------------------------------------------- Provider.Init
\* a failed Init that forgets to reset the state
InitFailureStateStuck == StateInitializing

\* the state a failed Init leaves: setState(StateUninitialized)
InitFailureState == StateUninitialized

\* a required-variable test that takes a cached name for a present one
RequiredMissingUnlessCached(e, name) ==
    ~LookupEnv(e, name).exists /\ name \notin DOMAIN cache

\* a required-variable test that finds every name present
RequiredMissingNever(e, name) == FALSE

\* the test of the required-variable loop: os.LookupEnv says the name is absent
RequiredMissing(e, name) == ~LookupEnv(e, name).exists

\* a missing list that keeps only the first missing name
AppendMissingFirstOnly(missing, name) == IF missing = <<>> THEN <<name>> ELSE missing

\* missing = append(missing, varName)
AppendMissing(missing, name) == Append(missing, name)

\* Lock, setState(StateInitializing), ParseConfig (which never fails)
InitBegin(p, r) ==
    /\ CanCall(p)
    /\ LockFree(mu, Readers)
    /\ mu' = p
    /\ state' = StateInitializing
    /\ calls' = calls + 1
    /\ Goto(p, "init_validate",
            [IdleLoc EXCEPT !.req = r, !.cfg = ParseConfig(r.config), !.seen = state])
    /\ UNCHANGED <<alias, config, fetcher, resolver, cache, env, envWrites, served,
                   everReady, validated, preInit, okAlias, probe>>

\* a failed Init that has stored the alias of its request
InitFailureAliasTaken(old, requested) == requested

\* p.alias after a failed Init: the failure returns before p.alias is assigned
InitFailureAlias(old, requested) == old

\* an Init fails: setState(StateUninitialized), Unlock, the error
InitFail(p, err, l) ==
    /\ state' = InitFailureState
    /\ alias' = InitFailureAlias(alias, l.req.alias)
    /\ mu' = Unlock(mu)
    /\ Return(p, Response("Init", "InvalidArgument", err, l))

\* Init succeeds: p.config = cfg; p.alias = req.Alias; p.fetcher = fetcher.New()
\* if nil; p.resolver = NewResolver(...); setState(StateReady); Unlock.  The
\* writes are one step: a Fetch reads p.resolver before p.config and Init
\* writes p.config before p.resolver, so a Fetch sees of them what it can see
\* when they are separate steps.
InitSucceed(p, l) ==
    /\ config' = l.cfg
    /\ alias' = l.req.alias
    /\ fetcher' = TRUE
    /\ resolver' = NewResolver(l.cfg.Separator, l.cfg.CaseTransform, l.cfg.Prefix,
                               l.cfg.PrefixMode)
    /\ state' = StateReady
    /\ mu' = Unlock(mu)
    /\ everReady' = TRUE
    /\ validated' = l.found
    /\ preInit' = DOMAIN cache
    /\ okAlias' = l.req.alias
    /\ UNCHANGED probe
    /\ Return(p, Response("Init", "OK", "", l))

\* ValidateConfig and, with no required variable, the rest of Init
InitValidate(p) ==
    /\ pc[p] = "init_validate"
    /\ IF ~ValidateConfig(loc[p].cfg)
       THEN /\ InitFail(p, "InvalidConfig", loc[p])
            /\ UNCHANGED <<config, fetcher, resolver, everReady, validated, preInit, okAlias, probe>>
       ELSE IF Len(loc[p].cfg.RequiredVariables) > 0
       THEN /\ Goto(p, "init_required", [loc[p] EXCEPT !.i = 1])
            /\ UNCHANGED <<state, mu, alias, config, fetcher, resolver,
                           everReady, validated, preInit, okAlias, probe>>
       ELSE InitSucceed(p, loc[p])
    /\ UNCHANGED <<cache, env, calls, envWrites, served>>

\* one iteration of the loop over cfg.RequiredVariables and, after the last
\* one, the test len(missing) > 0 and the rest of Init
InitCheckRequired(p) ==
    /\ pc[p] = "init_required"
    /\ LET l == loc[p]
           name == l.cfg.RequiredVariables[l.i]
           isMissing == RequiredMissing(env, name)
           l2 == [l EXCEPT !.i = l.i + 1,
                           !.missing = IF isMissing THEN AppendMissing(l.missing, name)
                                       ELSE l.missing,
                           !.absent = IF name \in DOMAIN env THEN l.absent
                                      ELSE l.absent \cup {name},
                           !.found = IF name \in DOMAIN env THEN l.found \cup {name}
                                     ELSE l.found]
       IN  IF l.i < Len(l.cfg.RequiredVariables)
           THEN /\ Goto(p, "init_required", l2)
                /\ UNCHANGED <<state, mu, alias, config, fetcher,
                               resolver, everReady, validated, preInit, okAlias, probe>>
           ELSE IF Len(l2.missing) > 0
           THEN /\ InitFail(p, "MissingRequiredVariable", l2)
                /\ UNCHANGED <<config, fetcher, resolver, everReady, validated, preInit, okAlias, probe>>
           ELSE InitSucceed(p, l2)
    /\ UNCHANGED <<cache, env, calls, envWrites, served>>

\* ------------------------------------------------------ Provider.Fetch
\* a guard of Fetch that rejects the Uninitialized state only
FetchAllowedUnlessUninitialized(s) == s # StateUninitialized

\* the guard of Fetch passes: not (p.GetState() != StateReady)
FetchAllowed(s) == s = StateReady

\* Fetcher.Fetch returns the cached value on a hit: f.cache.Load(varName)
CacheLoad(c, name) ==
    [ok |-> name \in DOMAIN c, value |-> IF name \in DOMAIN c THEN c[name] ELSE Str(<<>>)]

\* f.cache.Store(varName, value)
CacheStore(c, name, value) == MapStore(c, name, value)

\* the value Fetcher.Fetch returns after a miss: the one it read
FetchedValue(c, name, value) == value

\* GetState, the validation of the path and, for a one-segment path, the
\* variable name: the segment itself
FetchGuard(p, path) ==
    /\ CanCall(p)
    /\ calls' = calls + 1
    /\ LET l == [IdleLoc EXCEPT !.path = path, !.seen = state, !.prior = served]
       IN  IF ~FetchAllowed(state)
           THEN Return(p, Response("Fetch", "FailedPrecondition", "FailedPrecondition", l))
           ELSE IF Len(path) = 0
           THEN Return(p, Response("Fetch", "InvalidArgument", "EmptyPath", l))
           ELSE IF \E i \in 1..Len(path) : TrimSpace(path[i]) = <<>>
           THEN Return(p, Response("Fetch", "InvalidArgument", "EmptySegment", l))
           ELSE IF Len(path) = 1
           THEN Goto(p, "fetch_filter", [l EXCEPT !.varName = path[1]])
           ELSE Goto(p, "fetch_resolve", l)
    /\ UNCHANGED <<state, mu, alias, config, fetcher, resolver, cache, env, envWrites,
                   served, everReady, validated, preInit, okAlias, probe>>

\* the variable name of a path of several segments:
\* p.resolver.Transform(req.Path)
FetchResolve(p) ==
    /\ pc[p] = "fetch_resolve"
    /\ LET l == loc[p]
           t == Transform(resolver, l.path)
       IN  IF t.err # ""
           THEN Return(p, Response("Fetch", "InvalidArgument", t.err, l))
           ELSE Goto(p, "fetch_filter",
                     [l EXCEPT !.varName = t.name, !.resolverRead = resolver])
    /\ UNCHANGED <<state, mu, alias, config, fetcher, resolver, cache, env, calls,
                   envWrites, served, everReady, validated, preInit, okAlias, probe>>

\* the prefix filter of filter_only mode, read from p.config
FetchFilter(p) ==
    /\ pc[p] = "fetch_filter"
    /\ IF /\ config.PrefixMode = "filter_only"
          /\ config.Prefix # <<>>
          /\ ~FilterByPrefix(loc[p].varName, config.Prefix)
       THEN Return(p, Response("Fetch", "NotFound", "NotFound", loc[p]))
       ELSE Goto(p, "fetch_load", [loc[p] EXCEPT !.configRead = config])
    /\ UNCHANGED <<state, mu, alias, config, fetcher, resolver, cache, env, calls,
                   envWrites, served, everReady, validated, preInit, okAlias, probe>>

\* Fetcher.Fetch: f.cache.Load(varName)
FetchLoad(p) ==
    /\ pc[p] = "fetch_load"
    /\ LET hit == CacheLoad(cache, loc[p].varName)
       IN  IF hit.ok
           THEN Goto(p, "fetch_convert", [loc[p] EXCEPT !.value = hit.value])
           ELSE Goto(p, "fetch_lookup", loc[p])
    /\ UNCHANGED <<state, mu, alias, config, fetcher, resolver, cache, env, calls,
                   envWrites, served, everReady, validated, preInit, okAlias, probe>>

\* a size check that already refuses a value of the maximum size
TooLargeAtLimit(value) == RawLen(value) >= MaxValueSize

\* the size check of Fetcher.Fetch: len(value) > MaxValueSize
TooLarge(value) == RawLen(value) > MaxValueSize

\* Fetcher.Fetch: os.LookupEnv(varName) and the size check
FetchLookup(p) ==
    /\ pc[p] = "fetch_lookup"
    /\ LET l == [loc[p] EXCEPT !.readEnv = TRUE]
           v == LookupEnv(env, l.varName)
       IN  IF ~v.exists
           THEN Return(p, Response("Fetch", "NotFound", "NotFound", l))
           ELSE IF TooLarge(v.value)
           THEN Return(p, Response("Fetch", "InvalidArgument", "TooLarge", l))
           ELSE Goto(p, "fetch_store", [l EXCEPT !.value = v.value])
    /\ UNCHANGED <<state, mu, alias, config, fetcher, resolver, cache, env, calls,
                   envWrites, served, everReady, validated, preInit, okAlias, probe>>

\* Fetcher.Fetch: f.cache.Store(varName, value); return value
FetchStore(p) ==
    /\ pc[p] = "fetch_store"
    /\ cache' = CacheStore(cache, loc[p].varName, loc[p].value)
    /\ Goto(p, "fetch_convert",
            [loc[p] EXCEPT !.value = FetchedValue(cache', loc[p].varName, loc[p].value)])
    /\ preInit' = preInit \ {loc[p].varName}
    /\ UNCHANGED <<state, mu, alias, config, fetcher, resolver, env, calls, envWrites,
                   served, everReady, validated, okAlias, probe>>

\* Provider.convertValue: ConvertValue by the flags of the configuration
convertValue(value, cfg) ==
    ConvertValue(value, cfg.EnableTypeConversion, cfg.EnableJSONParsing)

\* convertedValue of Fetch: the raw value, converted when a flag asks for it
convertedValue(value, cfg) ==
    IF cfg.EnableTypeConversion \/ cfg.EnableJSONParsing
    THEN convertValue(value, cfg)
    ELSE [err |-> "", value |-> StringValue(value)]

\* the conversion, by the flags of p.config, and the response
FetchConvert(p) ==
    /\ pc[p] = "fetch_convert"
    /\ LET l == loc[p]
           typed == convertedValue(l.value, config)
       IN  IF typed.err # ""
           THEN /\ Return(p, Response("Fetch", "InvalidArgument", typed.err, l))
                /\ UNCHANGED served
           ELSE /\ Return(p, [Response("Fetch", "OK", "", l) EXCEPT
                                  !.raw = l.value, !.value = typed.value])
                /\ served' = IF l.varName \in EnvNames
                             THEN [served EXCEPT ![l.varName] = @ \cup {l.value}]
                             ELSE served
    /\ UNCHANGED <<state, mu, alias, config, fetcher, resolver, cache, env, calls,
                   envWrites, everReady, validated, preInit, okAlias, probe>>

\* --------------------------------------------------- Provider.Shutdown
\* Fetcher.Clear visits a key: f.cache.Delete(key)
ClearKey(c, key) == MapDelete(c, key)

\* Lock, setState(StateShuttingDown) and, with a fetcher, the start of
\* Fetcher.Clear: the keys the cache holds now are the ones Range must visit
ShutdownBegin(p) ==
    /\ CanCall(p)
    /\ LockFree(mu, Readers)
    /\ mu' = p
    /\ state' = StateShuttingDown
    /\ calls' = calls + 1
    /\ served' = NoneServed
    /\ pc' = [pc EXCEPT ![p] = IF fetcher THEN "shutdown_clear" ELSE "shutdown_stop"]
    /\ loc' = [q \in Callers |->
                  IF q = p THEN [IdleLoc EXCEPT !.seen = state, !.snapshot = DOMAIN cache]
                  ELSE [loc[q] EXCEPT !.prior = NoneServed]]
    /\ ret' = [q \in Callers |-> IF q = p THEN NoRet ELSE [ret[q] EXCEPT !.prior = NoneServed]]
    /\ UNCHANGED <<alias, config, fetcher, resolver, cache, env, envWrites, everReady,
                   validated, preInit, okAlias, probe>>

\* Fetcher.Clear: one call of the Range callback.  Range visits, once and in
\* no fixed order, every key the cache held when it started; a key stored
\* while Range runs may be visited (and deleted) or not.
ShutdownClear(p) ==
    /\ pc[p] = "shutdown_clear"
    /\ \E key \in (loc[p].snapshot \cup DOMAIN cache) \ loc[p].visited :
          /\ cache' = ClearKey(cache, key)
          /\ preInit' = preInit \ {key}
          /\ Goto(p, "shutdown_clear", [loc[p] EXCEPT !.visited = @ \cup {key}])
    /\ UNCHANGED <<state, mu, alias, config, fetcher, resolver, env, calls, envWrites,
                   served, everReady, validated, okAlias, probe>>

\* Range is over (or there is no fetcher): setState(StateStopped); Unlock; return
ShutdownStop(p) ==
    /\ pc[p] \in {"shutdown_clear", "shutdown_stop"}
    /\ loc[p].snapshot \subseteq loc[p].visited
    /\ state' = StateStopped
    /\ mu' = Unlock(mu)
    /\ Return(p, Response("Shutdown", "OK", "", loc[p]))
    /\ UNCHANGED <<alias, config, fetcher, resolver, cache, env, calls, envWrites,
                   served, everReady, validated, preInit, okAlias, probe>>

\* ------------------------------------------------------- Provider.Info
\* the Type of every InfoResponse
ProviderType == "environment-variables"

\* p.mu.RLock()
InfoBegin(p) ==
    /\ CanCall(p)
    /\ RLockFree(mu)
    /\ calls' = calls + 1
    /\ Goto(p, "info_locked", [IdleLoc EXCEPT !.seen = state])
    /\ UNCHANGED <<state, mu, alias, config, fetcher, resolver, cache, env, envWrites,
                   served, everReady, validated, preInit, okAlias, probe>>

\* the response, with p.alias, and the deferred RUnlock
InfoReturn(p) ==
    /\ pc[p] = "info_locked"
    /\ Return(p, [Response("Info", "OK", "", loc[p]) EXCEPT
                      !.alias = alias, !.type = ProviderType])
    /\ UNCHANGED <<state, mu, alias, config, fetcher, resolver, cache, env, calls,
                   envWrites, served, everReady, validated, preInit, okAlias, probe>>

\* ----------------------------------------------------- Provider.Health
\* a switch that reports every state but Ready as Degraded
HealthStatusNoStarting(s) ==
    IF s = StateReady THEN "STATUS_OK" ELSE "STATUS_DEGRADED"

\* the switch of Health over the state it read
HealthStatus(s) ==
    CASE s = StateReady -> "STATUS_OK"
      [] s = StateInitializing -> "STATUS_STARTING"
      [] OTHER -> "STATUS_DEGRADED"

\* state := p.GetState(), the switch and the response
Health(p) ==
    /\ CanCall(p)
    /\ calls' = calls + 1
    /\ Return(p, [Response("Health", "OK", "", [IdleLoc EXCEPT !.seen = state]) EXCEPT
                      !.status = HealthStatus(state)])
    /\ UNCHANGED <<state, mu, alias, config, fetcher, resolver, cache, env, envWrites,
                   served, everReady, validated, preInit, okAlias, probe>>

\* ------------------------------------------------------- specification
Next ==
    \/ \E p \in Callers, r \in InitRequests : InitBegin(p, r)
    \/ \E p \in Callers : InitValidate(p)
    \/ \E p \in Callers : InitCheckRequired(p)
    \/ \E p \in Callers, path \in FetchPaths : FetchGuard(p, path)
    \/ \E p \in Callers : FetchResolve(p)
    \/ \E p \in Callers : FetchFilter(p)
    \/ \E p \in Callers : FetchLoad(p)
    \/ \E p \in Callers : FetchLookup(p)
    \/ \E p \in Callers : FetchStore(p)
    \/ \E p \in Callers : FetchConvert(p)
    \/ \E p \in Callers : ShutdownBegin(p)
    \/ \E p \in Callers : ShutdownClear(p)
    \/ \E p \in Callers : ShutdownStop(p)
    \/ \E p \in Callers : InfoBegin(p)
    \/ \E p \in Callers : InfoReturn(p)
    \/ \E p \in Callers : Health(p)
    \/ \E n \in EnvNames, v \in EnvValues : Setenv(n, v)
    \/ \E n \in EnvNames : Unsetenv(n)

Spec == Init /\ [][Next]_vars

\* the steps of a call that has begun: none of them waits for anything
Continue(p) ==
    \/ InitValidate(p) \/ InitCheckRequired(p)
    \/ FetchResolve(p) \/ FetchFilter(p) \/ FetchLoad(p) \/ FetchLookup(p)
    \/ FetchStore(p) \/ FetchConvert(p)
    \/ ShutdownClear(p) \/ ShutdownStop(p)
    \/ InfoReturn(p)

\* the scheduler runs every goroutine that can run
Fairness == \A p \in Callers : WF_vars(Continue(p))

\* the environments a run of FairSpec starts in, and leaves as they are:
\* the initial one, one that also holds A_B (a malformed JSON text) and one
\* where A is over the size limit
FairEnvs ==
    {InitialEnv,
     (VarAB :> Str(<<"[">>)) @@ InitialEnv,
     (VarA :> Filled(<<"x">>, MaxValueSize)) @@ InitialEnv}

FairInit ==
    /\ state = StateUninitialized
    /\ mu = ""
    /\ alias = ""
    /\ config = Nil
    /\ fetcher = FALSE
    /\ resolver = Nil
    /\ cache = EmptyMap
    /\ env \in FairEnvs
    /\ pc = [p \in Callers |-> "idle"]
    /\ loc = [p \in Callers |-> IdleLoc]
    /\ ret = [p \in Callers |-> NoRet]
    /\ calls = 0
    /\ envWrites = 0
    /\ served = NoneServed
    /\ everReady = FALSE
    /\ validated = {}
    /\ preInit = {}
    /\ okAlias = ""
    /\ probe = NoProbe

\* the steps of the calls, without the changes of the environment
CallNext ==
    \/ \E p \in Callers, r \in InitRequests : InitBegin(p, r)
    \/ \E p \in Callers : InitValidate(p)
    \/ \E p \in Callers : InitCheckRequired(p)
    \/ \E p \in Callers, path \in FetchPaths : FetchGuard(p, path)
    \/ \E p \in Callers : FetchResolve(p)
    \/ \E p \in Callers : FetchFilter(p)
    \/ \E p \in Callers : FetchLoad(p)
    \/ \E p \in Callers : FetchLookup(p)
    \/ \E p \in Callers : FetchStore(p)
    \/ \E p \in Callers : FetchConvert(p)
    \/ \E p \in Callers : ShutdownBegin(p)
    \/ \E p \in Callers : ShutdownClear(p)
    \/ \E p \in Callers : ShutdownStop(p)
    \/ \E p \in Callers : InfoBegin(p)
    \/ \E p \in Callers : InfoReturn(p)
    \/ \E p \in Callers : Health(p)

FairSpec == FairInit /\ [][CallNext]_vars /\ Fairness

\* ------------------------------------------------------- pure functions
\* everything of the state that an application of a pure function leaves alone
providerVars ==
    <<state, mu, alias, config, fetcher, resolver, cache, env, pc, loc, ret,
      calls, envWrites, served, everReady, validated, preInit, okAlias>>

\* separators: two of one byte, none, two characters, one character of two
\* bytes, one of three bytes
ProbeSeparators ==
    {<<"_">>, <<".">>, <<>>, <<"_", "_">>, <<"U+00E9">>, <<"U+20AC">>}

ProbePrefixes == {<<>>, <<"P", "_">>}

\* the configurations ParseConfig makes of the requests that set the four
\* settings of the resolver, valid or not
ProbeConfigs ==
    {ParseConfig([separator |-> s, case_transform |-> c, prefix |-> x,
                  prefix_mode |-> m]) :
        s \in ProbeSeparators, c \in {"upper", "lower", "preserve", "title"},
        x \in ProbePrefixes, m \in {"prepend", "filter_only"}}

\* paths: none, one segment, mixed case, a blank segment, an empty segment,
\* segments with surrounding spaces, three segments
ProbePaths ==
    {<<>>,
     <<<<"a">>>>,
     <<<<"D", "b">>, <<"H", "o", "s", "t">>>>,
     <<<<"a">>, <<" ">>>>,
     <<<<"a">>, <<>>, <<"b">>>>,
     <<<<" ", "a">>, <<"B", " ">>>>,
     <<<<"x">>, <<"Y">>, <<"z">>>>}

\* the four combinations of the conversion flags
ProbeFlags ==
    {ParseConfig([enable_type_conversion |-> tc, enable_json_parsing |-> jp]) :
        tc \in BOOLEAN, jp \in BOOLEAN}

\* n copies of s, one after the other
Repeat(s, n) == [i \in 1..(n * Len(s)) |-> s[((i - 1) % Len(s)) + 1]]

\* createDeeplyNestedJSON: depth openings, the innermost value, depth closings
createDeeplyNestedJSON(open, close, depth, inner) ==
    Repeat(open, depth) \o inner \o Repeat(close, depth)

\* the nesting depths around the limit
ProbeDepths == {MaxJSONDepth - 1, MaxJSONDepth, MaxJSONDepth + 1}

\* how a level is opened and closed: an array, an object
ProbeWrappers ==
    {[open |-> <<"[">>, close |-> <<"]">>],
     [open |-> <<"{", "\"", "n", "\"", ":">>, close |-> <<"}">>]}

\* innermost values: a string, a number, a literal, an empty array, an
\* empty object
ProbeInnermost ==
    {<<"\"", "v", "\"">>, <<"1">>, <<"t", "r", "u", "e">>, <<"[", "]">>, <<"{", "}">>}

ProbeNested ==
    {Str(createDeeplyNestedJSON(w.open, w.close, d, v)) :
        w \in ProbeWrappers, d \in ProbeDepths, v \in ProbeInnermost}

\* raw values: numbers, the boolean tokens in several cases and with
\* surrounding whitespace, plain text, JSON texts well and badly formed,
\* values at the size limit and one byte over it
ProbeValues ==
    {Str(<<>>), Str(<<"1">>), Str(<<"0">>), Str(<<"-", "5">>), Str(<<" ", "1">>),
     Str(<<"t", "r", "u", "e">>), Str(<<"F", "A", "L", "S", "E">>),
     Str(<<"Y", "e", "s">>), Str(<<"n", "o">>), Str(<<" ", "t", "r", "u", "e", " ">>),
     Str(<<"n", "o", "\n">>), Str(<<"o", "n">>), Str(<<"y">>), Str(<<"t">>),
     Str(<<"a", "b", "c">>),
     Str(<<"[", "1", ",", "2", "]">>), Str(<<"{", "\"", "a", "\"", ":", "1", "}">>),
     Str(<<" ", "[", "]">>), Str(<<"[">>), Str(<<"{", "\"", "a", "\"", ":", "1">>),
     Str(<<" ", "{", "a", "}">>), Str(<<"[", "1", ",", "]">>),
     Filled(<<>>, MaxValueSize), Filled(<<"x">>, MaxValueSize),
     Filled(<<"1">>, MaxValueSize - 1), Filled(<<"[">>, MaxValueSize - 1)}
    \cup ProbeNested

\* the applications of the model: Transform by the resolver Init makes of a
\* valid configuration, ValidateConfig of a parsed configuration, the
\* conversion of a raw value under each combination of the flags
Probes ==
    {[NoProbe EXCEPT !.fn = "Transform", !.cfg = c, !.path = path] :
        c \in {x \in ProbeConfigs : ValidateConfig(x)}, path \in ProbePaths}
    \cup {[NoProbe EXCEPT !.fn = "ValidateConfig", !.cfg = c] : c \in ProbeConfigs}
    \cup {[NoProbe EXCEPT !.fn = "ConvertValue", !.cfg = c, !.value = v] :
            c \in ProbeFlags, v \in ProbeValues}

PureInit ==
    /\ state = StateUninitialized
    /\ mu = ""
    /\ alias = ""
    /\ config = Nil
    /\ fetcher = FALSE
    /\ resolver = Nil
    /\ cache = EmptyMap
    /\ env = InitialEnv
    /\ pc = [p \in Callers |-> "idle"]
    /\ loc = [p \in Callers |-> IdleLoc]
    /\ ret = [p \in Callers |-> NoRet]
    /\ calls = 0
    /\ envWrites = 0
    /\ served = NoneServed
    /\ everReady = FALSE
    /\ validated = {}
    /\ preInit = {}
    /\ okAlias = ""
    /\ probe \in Probes

\* Resolver.Transform, by the resolver Init makes of the configuration
ApplyTransform ==
    /\ probe.fn = "Transform"
    /\ ~probe.done
    /\ LET c == probe.cfg
           t == Transform(NewResolver(c.Separator, c.CaseTransform, c.Prefix,
                                      c.PrefixMode),
                          probe.path)
       IN  probe' = [probe EXCEPT !.done = TRUE,
                                  !.res = [NoResult EXCEPT !.err = t.err,
                                                           !.name = t.name]]
    /\ UNCHANGED providerVars

ApplyValidateConfig ==
    /\ probe.fn = "ValidateConfig"
    /\ ~probe.done
    /\ probe' = [probe EXCEPT !.done = TRUE,
                              !.res = [NoResult EXCEPT !.ok = ValidateConfig(probe.cfg)]]
    /\ UNCHANGED providerVars

\* the conversion Fetch makes of a raw value
ApplyConvertValue ==
    /\ probe.fn = "ConvertValue"
    /\ ~probe.done
    /\ LET c == convertedValue(probe.value, probe.cfg)
       IN  probe' = [probe EXCEPT !.done = TRUE,
                                  !.res = [NoResult EXCEPT !.err = c.err,
                                                           !.value = c.value]]
    /\ UNCHANGED providerVars

PureNext == ApplyTransform \/ ApplyValidateConfig \/ ApplyConvertValue

PureSpec == PureInit /\ [][PureNext]_vars

\* ============================================================== properties
FetchLabels == {"fetch_resolve", "fetch_filter", "fetch_load", "fetch_lookup",
                "fetch_store", "fetch_convert"}

Returned(p, op) == pc[p] = "done" /\ ret[p].op = op

\* C1: a Fetch whose read of the state found anything but Ready has returned
\* FailedPrecondition, carries no value and went no further than its guard.
FetchOnlyWhenReady ==
    \A p \in Callers :
        /\ pc[p] \in FetchLabels => loc[p].seen = StateReady
        /\ (Returned(p, "Fetch") /\ ret[p].seen # StateReady) =>
               /\ ret[p].code = "FailedPrecondition"
               /\ ret[p].value = NoTypedValue

\* C1 witness: a Fetch issued while a Shutdown was in progress was refused.
FetchRefusedWhileShuttingDown ==
    \E p \in Callers :
        /\ Returned(p, "Fetch")
        /\ ret[p].seen = StateShuttingDown
        /\ ret[p].code = "FailedPrecondition"

\* C2: whenever the instance is Ready, or a Fetch is past its guard or has
\* returned a value, an Init has succeeded before and every required variable
\* of the stored configuration was found in the environment by that Init.
ValidatedBeforeServed ==
    (\/ state = StateReady
     \/ \E p \in Callers : pc[p] \in FetchLabels
     \/ \E p \in Callers : Returned(p, "Fetch") /\ ret[p].code = "OK") =>
        /\ everReady
        /\ config # Nil
        /\ Elems(config.RequiredVariables) \subseteq validated

\* C2 witness: a Fetch returned a value under a configuration that has
\* required variables.
ServedAfterRequiredCheck ==
    \E p \in Callers :
        /\ Returned(p, "Fetch")
        /\ ret[p].code = "OK"
        /\ config # Nil
        /\ config.RequiredVariables # <<>>

AllowedTransitions ==
    {<<StateUninitialized, StateInitializing>>, <<StateInitializing, StateReady>>,
     <<StateInitializing, StateUninitialized>>, <<StateReady, StateShuttingDown>>,
     <<StateShuttingDown, StateStopped>>}

\* C3: every change of the state is one of the five transitions of the
\* lifecycle table (so Stopped is never left).
StrictTransitions ==
    [][state' # state => <<state, state'>> \in AllowedTransitions]_vars

\* C4: an Init that began in Ready, ShuttingDown or Stopped does not succeed.
InitOnlyFromUninitialized ==
    \A p \in Callers :
        (Returned(p, "Init")
            /\ ret[p].seen \in {StateReady, StateShuttingDown, StateStopped}) =>
            ret[p].code # "OK"

\* C5: the step that ends an Init leaves the state Uninitialized when the
\* Init fails, and ends in success with the state Ready when the
\* configuration is valid and every required variable existed when checked.
InitFailureRetryable ==
    [][\A p \in Callers :
          (pc[p] \in {"init_validate", "init_required"} /\ pc'[p] = "done") =>
              /\ ret'[p].code # "OK" => state' = StateUninitialized
              /\ (ValidateConfig(loc[p].cfg) /\ ret'[p].absent = {}) =>
                     (ret'[p].code = "OK" /\ state' = StateReady)]_vars

\* C5 witness: one caller's Init failed, and the Init of the other caller,
\* which came later (the state is Ready), succeeded.
InitSucceededAfterFailure ==
    \E p, q \in Callers :
        /\ Returned(p, "Init") /\ ret[p].code # "OK"
        /\ Returned(q, "Init") /\ ret[q].code = "OK"
        /\ state = StateReady

\* C6: the error of an Init that failed for missing required variables lists
\* exactly the required names that were absent from the environment when
\* the Init looked them up.
MissingListExact ==
    \A p \in Callers :
        (Returned(p, "Init") /\ ret[p].err = "MissingRequiredVariable") =>
            /\ Elems(ret[p].missing) = ret[p].absent
            /\ ret[p].absent # {}

\* C6 witness: of two required variables one exists, and the error lists the
\* other one alone.
MissingListsOnlyTheAbsent ==
    \E p \in Callers :
        /\ Returned(p, "Init")
        /\ ret[p].err = "MissingRequiredVariable"
        /\ ret[p].missing = <<VarAB>>
        /\ VarA \in DOMAIN env

\* C7: the Fetch calls that have returned a value for a name since the cache
\* was last cleared have all returned the same raw value.
ReadAfterWriteConsistent ==
    \A n \in EnvNames : Cardinality(served[n]) <= 1

\* C8: a cache entry keeps its raw value for as long as it exists.
CacheEntryNeverUpdated ==
    [][\A n \in DOMAIN cache : n \in DOMAIN cache' => cache'[n] = cache[n]]_vars

\* C9: a Fetch that began after a Fetch of the same name had returned a
\* value (with no Shutdown since) returns that raw value and does not read
\* the environment.
FetchIdempotent ==
    \A p \in Callers :
        (/\ Returned(p, "Fetch")
         /\ ret[p].code = "OK"
         /\ ret[p].prior[ret[p].name] # {}) =>
            /\ ret[p].raw \in ret[p].prior[ret[p].name]
            /\ ~ret[p].readEnv

\* C10: whenever the state is Stopped the cache holds no entry.
StoppedCacheEmpty == state = StateStopped => DOMAIN cache = {}

ShutdownLabels == {"shutdown_clear", "shutdown_stop"}

InitLabels == {"init_validate", "init_required"}

\* C11: a Shutdown call made on a Stopped instance returns success and leaves
\* the state Stopped, and alias, config and resolver as they are, at every
\* step from its first to its last.
ShutdownIdempotent ==
    [][\A p \in Callers :
          /\ (pc[p] \notin ShutdownLabels /\ pc'[p] \in ShutdownLabels
                  /\ state = StateStopped) =>
                 (state' = StateStopped /\ UNCHANGED <<alias, config, resolver>>)
          /\ (pc[p] \in ShutdownLabels /\ loc[p].seen = StateStopped
                  /\ pc'[p] = "done") =>
                 (state = StateStopped /\ state' = StateStopped /\ ret'[p].code = "OK")]_vars

\* C12: no Fetch takes from the cache an entry that was stored before the
\* last successful Init: after a re-initialization the first Fetch of a name
\* misses the cache and reads the environment.
CacheNotKeptAcrossInit ==
    [][\A p \in Callers :
          (pc[p] = "fetch_load" /\ pc'[p] = "fetch_convert") =>
              loc[p].varName \notin preInit]_vars

InLifecycle(p) == pc[p] \in InitLabels \cup ShutdownLabels

\* C13: at most one Init or Shutdown call is between its first and its last
\* state write, it holds the lock alone, the state is the one it wrote last,
\* and between calls the instance is as one completed call left it.
LifecycleSingleWriter ==
    /\ \A p, q \in Callers : (InLifecycle(p) /\ InLifecycle(q)) => p = q
    /\ \A p \in Callers :
           /\ InLifecycle(p) => (mu = p /\ Readers = {})
           /\ pc[p] \in InitLabels => state = StateInitializing
           /\ pc[p] \in ShutdownLabels => state = StateShuttingDown
    /\ (\A p \in Callers : ~InLifecycle(p)) =>
           /\ mu = ""
           /\ state \in {StateUninitialized, StateReady, StateStopped}
    /\ state = StateReady =>
           /\ alias = okAlias
           /\ resolver = NewResolver(config.Separator, config.CaseTransform,
                                     config.Prefix, config.PrefixMode)

\* C13 witness: a Shutdown is clearing the cache after an Init of the other
\* caller has succeeded.
ShutdownAfterInit ==
    \E p, q \in Callers :
        /\ p # q
        /\ Returned(p, "Init") /\ ret[p].code = "OK"
        /\ pc[q] = "shutdown_clear"
        /\ state = StateShuttingDown

\* C14: under fair scheduling every call that has begun returns, and the
\* lock is free again and again, so that no call waits for it for ever.
NoIndefiniteBlocking ==
    /\ \A p \in Callers : (pc[p] \notin {"idle", "done"}) ~> (pc[p] = "done")
    /\ []<>(mu = "" /\ Readers = {})

\* C14 witness: the callers have made all the calls the model allows, Init
\* or Shutdown the last of each, and every call has returned.
AllCallsReturned ==
    /\ calls = MaxCalls
    /\ mu = ""
    /\ \A p \in Callers : Returned(p, "Init") \/ Returned(p, "Shutdown")

InfoReturnsLastAlias ==
    [][/\ \A p \in Callers :
             (pc[p] = "info_locked" /\ pc'[p] = "done") =>
                 /\ ret'[p].code = "OK"
                 /\ ret'[p].type = "environment-variables"
                 /\ ret'[p].alias = okAlias
       /\ alias' # alias =>
             \E p \in Callers :
                 pc[p] \in InitLabels /\ pc'[p] = "done" /\ ret'[p].code = "OK"]_vars

\* C16 witness: an Info call made after an Init had succeeded with alias a1
\* and a later Init had failed returned a1.
InfoKeepsAliasAfterFailedInit ==
    \E p \in Callers :
        /\ Returned(p, "Info")
        /\ ret[p].seen = StateUninitialized
        /\ ret[p].alias = "a1"

\* C17: a step of the required-variable loop of Init leaves the cache as it
\* is and lists the name it checks exactly when the environment does not
\* hold it, whatever the cache holds.
RequiredCheckBypassesCache ==
    [][\A p \in Callers :
          (pc[p] = "init_required" /\ (pc'[p] # pc[p] \/ loc'[p] # loc[p])) =>
              LET name == loc[p].cfg.RequiredVariables[loc[p].i]
                  after == IF pc'[p] = "done" THEN ret'[p].missing ELSE loc'[p].missing
              IN  /\ cache' = cache
                  /\ after = IF name \in DOMAIN env THEN loc[p].missing
                             ELSE Append(loc[p].missing, name)]_vars

\* C17 witness: an Init reported as missing a required name that is cached
\* and no longer in the environment.
CachedButUnsetReportedMissing ==
    \E p \in Callers :
        /\ Returned(p, "Init")
        /\ VarA \in Elems(ret[p].missing)
        /\ VarA \in DOMAIN cache
        /\ VarA \notin DOMAIN env

\* C18: under a filter_only configuration with a prefix, a Fetch whose name
\* does not start with the prefix ends at the filter with NotFound, no value,
\* no read of the environment and the cache as it was; and the name a
\* filter_only resolver gives is the joined segments, without the prefix.
FilterOnlyRejects ==
    [][\A p \in Callers :
          /\ (/\ pc[p] = "fetch_filter" /\ pc'[p] # "fetch_filter"
              /\ config.PrefixMode = "filter_only" /\ config.Prefix # <<>>
              /\ ~HasPrefix(loc[p].varName, config.Prefix)) =>
                 /\ pc'[p] = "done"
                 /\ ret'[p].code = "NotFound"
                 /\ ret'[p].value = NoTypedValue
                 /\ ret'[p].name = loc[p].varName
                 /\ ~ret'[p].readEnv
                 /\ cache' = cache
          /\ (/\ pc[p] = "fetch_resolve" /\ pc'[p] = "fetch_filter"
              /\ resolver.prefixMode = "filter_only") =>
                 loc'[p].varName =
                     Join(TransformSegments(loc[p].path, resolver.caseTransform),
                          resolver.separator)]_vars

\* C18 witness: a Fetch of a name without the prefix was rejected although
\* the variable exists and is cached.
FilteredThoughCached ==
    \E p \in Callers :
        /\ Returned(p, "Fetch")
        /\ ret[p].code = "NotFound"
        /\ ~ret[p].readEnv
        /\ ret[p].name = VarA
        /\ VarA \in DOMAIN cache
        /\ VarA \in DOMAIN env

\* C19: a Fetch that returns a value while a prefix is configured returns the
\* value of a variable whose name starts with the prefix.
OnlyPrefixedExposed ==
    [][\A p \in Callers :
          (/\ pc[p] = "fetch_convert" /\ pc'[p] = "done"
           /\ ret'[p].code = "OK"
           /\ config.Prefix # <<>>) =>
              HasPrefix(ret'[p].name, config.Prefix)]_vars

\* C20: with the configuration of RequestMyApp and MYAPP_PORT=8080 in the
\* environment, a Fetch of the path ["port"] made in Ready resolves to
\* MYAPP_PORT and returns the number 8080.
PortPathResolved ==
    \A p \in Callers :
        (/\ Returned(p, "Fetch")
         /\ ret[p].path = PathPort
         /\ ret[p].seen = StateReady
         /\ config = ParseConfig(RequestMyApp.config)
         /\ LookupEnv(env, VarPort).value = Str(<<"8", "0", "8", "0">>)) =>
            /\ ret[p].code = "OK"
            /\ ret[p].name = VarPort
            /\ ret[p].value = NumberValue(8080, Str(<<"8", "0", "8", "0">>))

\* ---------------------------------------------------------------- C21
\* a path Transform accepts: at least one segment, none empty or blank
ValidPath(path) == Len(path) > 0 /\ \A i \in 1..Len(path) : TrimSpace(path[i]) # <<>>

\* Transform has been applied under a valid configuration with the preserve
\* rule to a path it accepts
PreserveApplied ==
    /\ probe.fn = "Transform"
    /\ probe.done
    /\ ValidateConfig(probe.cfg)
    /\ probe.cfg.CaseTransform = "preserve"
    /\ ValidPath(probe.path)

\* C21 as stated: under a valid configuration with the preserve rule, the
\* resolved name of a path of non-empty segments is the segments joined with
\* the separator, byte for byte
PreserveJoinsExactly ==
    PreserveApplied =>
        /\ probe.res.err = ""
        /\ probe.res.name = Join(probe.path, probe.cfg.Separator)

\* C21, amended: under a valid configuration with the preserve rule, the
\* resolved name of a path of non-empty segments is the prefix, when the
\* prefix mode is prepend, followed by the segments joined with the
\* separator, byte for byte
PreserveJoinsAfterPrefix ==
    PreserveApplied =>
        /\ probe.res.err = ""
        /\ probe.res.name =
               (IF probe.cfg.PrefixMode = "prepend" THEN probe.cfg.Prefix ELSE <<>>)
                   \o Join(probe.path, probe.cfg.Separator)

\* a mixed-case path resolved under the preserve rule behind a prepended prefix
PreservedBehindPrefix ==
    /\ PreserveApplied
    /\ probe.cfg.PrefixMode = "prepend"
    /\ probe.cfg.Prefix = <<"P", "_">>
    /\ probe.path = <<<<"D", "b">>, <<"H", "o", "s", "t">>>>
    /\ probe.res.name = <<"P", "_", "D", "b", "_", "H", "o", "s", "t">>

\* ---------------------------------------------------------------- C22
\* C22: the validation accepts a separator exactly when it is one character
\* long, counted in characters and not in bytes: one character of several
\* bytes is accepted, no character or several characters are rejected
SeparatorOneCharacter ==
    (/\ probe.fn = "ValidateConfig"
     /\ probe.done
     /\ probe.cfg.CaseTransform \in {"upper", "lower", "preserve"}
     /\ probe.cfg.PrefixMode \in {"prepend", "filter_only"})
        => (probe.res.ok <=> Len(probe.cfg.Separator) = 1)

\* ---------------------------------------------------------------- C23
\* the conversion Fetch makes has been applied to a raw value
ConversionApplied == probe.fn = "ConvertValue" /\ probe.done

\* the first character that is not whitespace is { or [
LooksLikeJSON(value) ==
    LET trimmed == TrimSpace(value.text)
    IN  trimmed # <<>> /\ Head(trimmed) \in {"{", "["}

\* C23: the conversion of a raw value is the first that applies of JSON (by
\* the first character, when JSON parsing is enabled), Number, Boolean and
\* String, so that "1" and "0" become Number and never Boolean
PrecedenceFixed ==
    (/\ ConversionApplied
     /\ RawLen(probe.value) > 0
     /\ RawLen(probe.value) <= MaxValueSize)
        => LET tc == probe.cfg.EnableTypeConversion
               jp == probe.cfg.EnableJSONParsing
               type == probe.res.value.type
           IN  /\ IF jp /\ LooksLikeJSON(probe.value)
                  THEN probe.res.err # "" \/ type \in {"object", "array"}
                  ELSE IF tc /\ TryNumeric(probe.value).ok
                  THEN probe.res.err = "" /\ type = "number"
                  ELSE IF tc /\ TryBoolean(probe.value).ok
                  THEN probe.res.err = "" /\ type = "boolean"
                  ELSE probe.res.err = "" /\ type = "string"
               /\ (tc /\ probe.value \in {Str(<<"1">>), Str(<<"0">>)})
                      => (type = "number" /\ probe.res.value.num = DigitValue(probe.value.text[1]))

\* "1" converted with both flags enabled: the Number 1
OneIsNumber ==
    /\ ConversionApplied
    /\ probe.value = Str(<<"1">>)
    /\ probe.cfg.EnableTypeConversion
    /\ probe.cfg.EnableJSONParsing
    /\ probe.res.value = NumberValue(1, Str(<<"1">>))

\* ---------------------------------------------------------------- C24
\* C24: with JSON parsing enabled, a value whose first character that is not
\* whitespace is { or [ and that is not valid JSON fails with InvalidJson and
\* is never returned as a string
MalformedJSONFails ==
    (/\ ConversionApplied
     /\ probe.cfg.EnableJSONParsing
     /\ RawLen(probe.value) <= MaxValueSize
     /\ LooksLikeJSON(probe.value)
     /\ ~Unmarshal(probe.value).ok)
        => (probe.res.err = "ErrInvalidJSON" /\ probe.res.value = NoTypedValue)

\* an object that is not closed, converted with JSON parsing enabled
UnclosedObjectRejected ==
    /\ ConversionApplied
    /\ probe.cfg.EnableJSONParsing
    /\ probe.value = Str(<<"{", "\"", "a", "\"", ":", "1">>)
    /\ probe.res.err = "ErrInvalidJSON"

\* ---------------------------------------------------------------- C25
\* the text of an innermost value inside depth levels of one kind of nesting
NestedText(w, depth, inner) == Str(createDeeplyNestedJSON(w.open, w.close, depth, inner))

\* C25: with JSON parsing enabled, a value nested exactly 100 levels deep
\* converts and a value nested 101 levels deep fails with JsonTooDeep, for
\* arrays and objects alike and whatever the innermost value is
JsonDepthBoundary ==
    (ConversionApplied /\ probe.cfg.EnableJSONParsing)
        => \A w \in ProbeWrappers, inner \in ProbeInnermost :
              /\ probe.value = NestedText(w, MaxJSONDepth, inner)
                    => /\ probe.res.err = ""
                       /\ probe.res.value.type =
                              (IF w.open = <<"[">> THEN "array" ELSE "object")
              /\ probe.value = NestedText(w, MaxJSONDepth + 1, inner)
                    => /\ probe.res.err = "ErrJSONTooDeep"
                       /\ probe.res.value = NoTypedValue

\* a string inside exactly 100 levels of objects converted to an Object
HundredLevelsConverted ==
    /\ ConversionApplied
    /\ probe.cfg.EnableJSONParsing
    /\ probe.value = NestedText([open |-> <<"{", "\"", "n", "\"", ":">>, close |-> <<"}">>],
                                MaxJSONDepth, <<"\"", "v", "\"">>)
    /\ probe.res.err = ""
    /\ probe.res.value.type = "object"

\* ---------------------------------------------------------------- C27
\* the four tokens of a Boolean, in lower case
BooleanTokens ==
    {<<"t", "r", "u", "e">>, <<"f", "a", "l", "s", "e">>, <<"y", "e", "s">>, <<"n", "o">>}

\* C27: with type conversion enabled a raw value becomes a Boolean exactly
\* when it is one of true, false, yes, no in any case; any other value, such
\* as a token with whitespace around it, does not
BooleanTokensExact ==
    (ConversionApplied /\ probe.cfg.EnableTypeConversion)
        => /\ probe.res.value.type = "boolean"
                  <=> (probe.value.fill = 0 /\ ToLowerCase(probe.value.text) \in BooleanTokens)
           /\ probe.res.value.type = "boolean"
                  => (probe.res.value.bool
                          <=> ToLowerCase(probe.value.text) \in {<<"t", "r", "u", "e">>, <<"y", "e", "s">>})

\* ---------------------------------------------------------------- C26
\* C26: a raw value of exactly 1048576 bytes is fetched and converted; a
\* value one byte longer fails with TooLarge and is not cached
SizeBoundary ==
    [][\A p \in Callers :
          /\ (/\ pc[p] = "fetch_lookup"
              /\ pc'[p] # "fetch_lookup"
              /\ loc[p].varName \in DOMAIN env)
                 => LET value == env[loc[p].varName]
                    IN  /\ RawLen(value) = MaxValueSize
                            => (pc'[p] = "fetch_store" /\ loc'[p].value = value)
                        /\ RawLen(value) = MaxValueSize + 1
                            => /\ pc'[p] = "done"
                               /\ ret'[p].code = "InvalidArgument"
                               /\ ret'[p].err = "TooLarge"
                               /\ cache' = cache
          /\ (/\ pc[p] = "fetch_convert"
              /\ pc'[p] = "done"
              /\ RawLen(loc[p].value) = MaxValueSize
              /\ ~LooksLikeJSON(loc[p].value))
                 => /\ ret'[p].code = "OK"
                    /\ ret'[p].raw = loc[p].value
                    /\ ret'[p].value.raw = loc[p].value
          /\ \A n \in DOMAIN cache' : RawLen(cache'[n]) <= MaxValueSize]_vars

\* a Fetch has read a value of exactly the maximum size from the environment
\* and returned it
AtLimitServed ==
    \E p \in Callers :
        /\ Returned(p, "Fetch")
        /\ ret[p].code = "OK"
        /\ ret[p].readEnv
        /\ RawLen(ret[p].raw) = MaxValueSize

\* ---------------------------------------------------------------- C28
\* the resolver Init makes of a configuration
ResolverOf(c) == NewResolver(c.Separator, c.CaseTransform, c.Prefix, c.PrefixMode)

\* C28: the resolver, the prefix settings and the conversion flags a Fetch
\* applies all come from one configuration, the one of one successful Init
OneConfigPerFetch ==
    [][\A p \in Callers :
          /\ (/\ pc[p] = "fetch_filter"
              /\ pc'[p] # "fetch_filter"
              /\ loc[p].resolverRead # Nil)
                 => loc[p].resolverRead = ResolverOf(config)
          /\ (pc[p] = "fetch_convert" /\ pc'[p] = "done")
                 => /\ loc[p].configRead = config
                    /\ loc[p].resolverRead # Nil
                           => loc[p].resolverRead = ResolverOf(config)]_vars

\* ---------------------------------------------------------------- C29
\* caller p takes a step of an Init
InitStep(p) ==
    \/ pc[p] \in InitLabels /\ (pc'[p] # pc[p] \/ loc'[p] # loc[p])
    \/ pc[p] \notin InitLabels /\ pc'[p] \in InitLabels

\* C29: an Init that fails changes nothing but the lifecycle state: no step
\* of an Init other than its successful end changes the configuration, the
\* alias, the resolver, the fetcher or the cache
FailedInitFrame ==
    [][\A p \in Callers :
          (InitStep(p) /\ ~(pc'[p] = "done" /\ ret'[p].code = "OK"))
              => UNCHANGED <<config, alias, resolver, fetcher, cache>>]_vars

\* an Init has failed on a provider that holds a configuration and a cached
\* value
FailedInitOnServingProvider ==
    \E p \in Callers :
        /\ Returned(p, "Init")
        /\ ret[p].code # "OK"
        /\ config # Nil
        /\ alias # ""
        /\ cache # EmptyMap

\* ---------------------------------------------------------------- C30
\* the errors of a Fetch that has not obtained a value
FetchRefusals ==
    {"FailedPrecondition", "EmptyPath", "ErrEmptyPath", "EmptySegment",
     "ErrEmptySegment", "NotFound", "TooLarge"}

\* C30: a Fetch that fails with FailedPrecondition, EmptyPath, EmptySegment,
\* NotFound or TooLarge creates no cache entry: the cache changes only in
\* the store of a Fetch and in the Clear of a Shutdown, and a Fetch that has
\* reached its store does not end with one of these errors; an absent
\* variable is not remembered as absent: the fetcher returns NotFound only
\* for a name the environment does not hold at that moment and a cache miss
\* always leads to a read of the environment, so that a Fetch made after the
\* variable is set reads its value
FailedFetchLeavesNoEntry ==
    [][/\ cache' # cache
             => \E q \in Callers :
                    /\ pc[q] \in {"fetch_store", "shutdown_clear"}
                    /\ pc'[q] # pc[q] \/ loc'[q] # loc[q]
       /\ \A p \in Callers :
             /\ (pc[p] = "fetch_store" /\ pc'[p] # pc[p]) => pc'[p] = "fetch_convert"
             /\ (pc[p] = "fetch_convert" /\ pc'[p] = "done")
                    => ret'[p].err \notin FetchRefusals
             /\ (pc[p] = "fetch_lookup" /\ pc'[p] = "done" /\ ret'[p].err = "NotFound")
                    => loc[p].varName \notin DOMAIN env
             /\ (/\ pc[p] = "fetch_load"
                 /\ pc'[p] # pc[p]
                 /\ loc[p].varName \notin DOMAIN cache)
                    => pc'[p] = "fetch_lookup"]_vars

\* a Fetch did not find A_B in the environment; the variable was set and a
\* later Fetch read and returned its value
SetLaterThenServed ==
    /\ Returned("c1", "Fetch")
    /\ ret["c1"].err = "NotFound"
    /\ ret["c1"].name = VarAB
    /\ ret["c1"].readEnv
    /\ Returned("c2", "Fetch")
    /\ ret["c2"].code = "OK"
    /\ ret["c2"].name = VarAB
    /\ ret["c2"].readEnv
    /\ ret["c2"].raw = env[VarAB]


====
